---------------------------- MODULE Spec2Model ----------------------------
(***************************************************************************)
(* Customer Support Helper API (src/main.py): the FAQ matcher, the ticket  *)
(* store with its submission and lookup handlers, the sentiment labelling  *)
(* and the intent recognizer, as a state machine.                          *)
(*                                                                         *)
(* Text that the code inspects character by character (FAQ and action      *)
(* queries) is a sequence of one-character strings.  Text that the code    *)
(* only measures and stores (e-mail, issue description) is a string.       *)
(***************************************************************************)
EXTENDS Integers, Sequences, FiniteSets, Bags, TLC

VARIABLES
    support_tickets_db,   \* ticket_id -> ticket record (main.py:42)
    pending,              \* bag of ticket submissions in flight: received, not yet handled
    last,                 \* the request handled most recently and its response
                          \* (status 0 while it is not answered yet)
    tickets_log,          \* the 201 responses sent so far, in order of submission
    utcnow,               \* the reading of the UTC wall clock
    polarity              \* TextBlob's polarity of each issue description

vars == <<support_tickets_db, pending, last, tickets_log, utcnow, polarity>>

---------------------------------------------------------------------------
(* Bounds of the model *)

\* ticket submissions the server accepts in one behaviour
MaxTickets == 2
\* requests in flight at the same time
MaxInFlight == 2
\* readings the wall clock can advance through
MaxClock == 1
\* chunks a generated FAQ or action query is concatenated from
MaxChunks == 3
\* polarity scores are multiples of 0.1 / Resolution
Resolution == 10

---------------------------------------------------------------------------
(* str.lower(), str.upper(), `in`, on ASCII text *)

UpperCase == << "A", "B", "C", "D", "E", "F", "G", "H", "I", "J", "K", "L", "M",
                "N", "O", "P", "Q", "R", "S", "T", "U", "V", "W", "X", "Y", "Z" >>
LowerCase == << "a", "b", "c", "d", "e", "f", "g", "h", "i", "j", "k", "l", "m",
                "n", "o", "p", "q", "r", "s", "t", "u", "v", "w", "x", "y", "z" >>
Digits == { "0", "1", "2", "3", "4", "5", "6", "7", "8", "9" }

IsUpper(c) == \E i \in 1..26 : UpperCase[i] = c
IsLower(c) == \E i \in 1..26 : LowerCase[i] = c

lower_char(c) == IF IsUpper(c) THEN LowerCase[CHOOSE i \in 1..26 : UpperCase[i] = c] ELSE c
upper_char(c) == IF IsLower(c) THEN UpperCase[CHOOSE i \in 1..26 : LowerCase[i] = c] ELSE c

lower(s) == [i \in 1..Len(s) |-> lower_char(s[i])]
upper(s) == [i \in 1..Len(s) |-> upper_char(s[i])]

\* Python's `k in s` for strings: k occurs in s as a contiguous substring
Contains(s, k) ==
    \E i \in 0..(Len(s) - Len(k)) : \A j \in 1..Len(k) : s[i + j] = k[j]

---------------------------------------------------------------------------
(* FAQ store and matcher *)

\* iteration order of faq_database.items(): the insertion order of the dict
FaqOrder == << "password_reset", "shipping_info", "return_policy", "payment_options" >>

faq_database ==
    [ password_reset |->
        [ keywords |->
            << <<"p", "a", "s", "s", "w", "o", "r", "d">>,
               <<"r", "e", "s", "e", "t">>,
               <<"f", "o", "r", "g", "o", "t">>,
               <<"c", "h", "a", "n", "g", "e", " ", "a", "c", "c", "o", "u", "n", "t">> >>,
          question |-> "How do I reset my password?",
          answer |-> "You can reset your password by visiting the 'Account Settings' page and clicking on 'Forgot Password'. An email will be sent to you with instructions." ],
      shipping_info |->
        [ keywords |->
            << <<"s", "h", "i", "p", "p", "i", "n", "g">>,
               <<"d", "e", "l", "i", "v", "e", "r", "y">>,
               <<"t", "r", "a", "c", "k">>,
               <<"p", "a", "c", "k", "a", "g", "e">>,
               <<"h", "o", "w", " ", "l", "o", "n", "g">>,
               <<"s", "h", "i", "p">> >>,
          question |-> "How long does shipping take?",
          answer |-> "Standard shipping usually takes 3-5 business days. Expedited shipping takes 1-2 business days. You will receive a tracking number once your order ships." ],
      return_policy |->
        [ keywords |->
            << <<"r", "e", "t", "u", "r", "n">>,
               <<"r", "e", "f", "u", "n", "d">>,
               <<"e", "x", "c", "h", "a", "n", "g", "e">>,
               <<"p", "o", "l", "i", "c", "y">> >>,
          question |-> "What is your return policy?",
          answer |-> "You can return most new, unopened items within 30 days of delivery for a full refund. We'll also pay the return shipping costs if the return is a result of our error." ],
      payment_options |->
        [ keywords |->
            << <<"p", "a", "y", "m", "e", "n", "t">>,
               <<"p", "a", "y">>,
               <<"c", "r", "e", "d", "i", "t", " ", "c", "a", "r", "d">>,
               <<"p", "a", "y", "p", "a", "l">>,
               <<"o", "p", "t", "i", "o", "n", "s">> >>,
          question |-> "What payment options do you accept?",
          answer |-> "We accept Visa, MasterCard, American Express, and PayPal." ] ]

\* best_faq_id = None
NoFaq == "None"

\* the inner loop (main.py:97-100): one increment per keyword of the list found
current_score(faq_id, user_query_lower) ==
    LET keywords == faq_database[faq_id].keywords
    IN  Cardinality({ i \in 1..Len(keywords) : Contains(user_query_lower, keywords[i]) })

\* mutant: a tie replaces the best match found so far
IsBetterOrEqual(score, best_match_score) == score >= best_match_score

\* main.py:103
IsBetter(score, best_match_score) == score > best_match_score

\* the outer loop (main.py:96-105) from the i-th entry on
RECURSIVE ScanFaq(_, _, _, _)
ScanFaq(i, user_query_lower, best_match_score, best_faq_id) ==
    IF i > Len(FaqOrder)
    THEN << best_match_score, best_faq_id >>
    ELSE LET score == current_score(FaqOrder[i], user_query_lower)
         IN  IF IsBetter(score, best_match_score)
             THEN ScanFaq(i + 1, user_query_lower, score, FaqOrder[i])
             ELSE ScanFaq(i + 1, user_query_lower, best_match_score, best_faq_id)

\* the FAQ id find_faq_answer settles on, NoFaq when it returns None
find_faq_answer(user_query) ==
    LET best == ScanFaq(1, lower(user_query), 0, NoFaq)
    IN  IF best[2] # NoFaq /\ best[1] > 0 THEN best[2] ELSE NoFaq

FallbackAnswer == "I'm sorry, I couldn't find an answer related to your query. Please try rephrasing or check our full FAQ page."


---------------------------------------------------------------------------
(* Intent recognizer: the two regular expressions of main.py:119 and :129 *)

Whitespace == { " ", "\t", "\n" }

\* [A-Z0-9] under re.IGNORECASE
IsAlnum(c) == IsUpper(c) \/ IsLower(c) \/ c \in Digits
\* \w
IsWordChar(c) == IsAlnum(c) \/ c = "_"

VerbPhrases ==
    << <<"t", "r", "a", "c", "k">>,
       <<"s", "t", "a", "t", "u", "s", " ", "o", "f">>,
       <<"w", "h", "e", "r", "e", " ", "i", "s">> >>

MyOrder == <<" ", "m", "y", " ", "o", "r", "d", "e", "r">>

GreetingWords ==
    << <<"h", "e", "l", "l", "o">>,
       <<"h", "i">>,
       <<"h", "e", "y">>,
       <<"g", "o", "o", "d", " ", "m", "o", "r", "n", "i", "n", "g">>,
       <<"g", "o", "o", "d", " ", "a", "f", "t", "e", "r", "n", "o", "o", "n">> >>

\* the literal lit matches s right after offset off, letter case ignored
MatchesAt(s, off, lit) ==
    /\ off + Len(lit) <= Len(s)
    /\ \A j \in 1..Len(lit) : lower_char(s[off + j]) = lower_char(lit[j])

\* \s* is greedy: the first position from p on that holds no whitespace
RECURSIVE SkipSpaces(_, _)
SkipSpaces(s, p) ==
    IF p <= Len(s) /\ s[p] \in Whitespace THEN SkipSpaces(s, p + 1) ELSE p

\* [A-Z0-9]+ is greedy: the position after the run of alphanumerics from p on
RECURSIVE AlnumEnd(_, _)
AlnumEnd(s, p) ==
    IF p <= Len(s) /\ IsAlnum(s[p]) THEN AlnumEnd(s, p + 1) ELSE p

\* where group 2 starts when the pattern is tried at offset off with verb v
TokenStart(s, off, v) == SkipSpaces(s, off + Len(VerbPhrases[v]) + Len(MyOrder) + 1)

\* the track_order pattern matches s at offset off
TrackOrderAt(s, off) ==
    \E v \in 1..Len(VerbPhrases) :
        /\ MatchesAt(s, off, VerbPhrases[v] \o MyOrder)
        /\ AlnumEnd(s, TokenStart(s, off, v)) > TokenStart(s, off, v)

\* re.search: the offsets at which the pattern matches; the leftmost is taken
TrackOrderOffsets(s) == { off \in 0..Len(s) : TrackOrderAt(s, off) }

track_order_match(user_query) == TrackOrderOffsets(user_query) # {}

\* track_order_match.group(2) of the leftmost match
group2(user_query) ==
    LET off == CHOOSE o \in TrackOrderOffsets(user_query) :
                   \A o2 \in TrackOrderOffsets(user_query) : o <= o2
        v   == CHOOSE w \in 1..Len(VerbPhrases) :
                   MatchesAt(user_query, off, VerbPhrases[w] \o MyOrder)
        p   == TokenStart(user_query, off, v)
    IN  SubSeq(user_query, p, AlnumEnd(user_query, p) - 1)

\* \b between s[b] and s[b+1]; outside the string counts as a non-word character
IsWordAt(s, i) == i >= 1 /\ i <= Len(s) /\ IsWordChar(s[i])
WordBoundary(s, b) == IsWordAt(s, b) # IsWordAt(s, b + 1)

\* re.search(r"\b(hello|hi|hey|good morning|good afternoon)\b", user_query_lower)
greeting_match(user_query_lower) ==
    \E off \in 0..Len(user_query_lower) : \E g \in 1..Len(GreetingWords) :
        /\ off + Len(GreetingWords[g]) <= Len(user_query_lower)
        /\ \A j \in 1..Len(GreetingWords[g]) : user_query_lower[off + j] = GreetingWords[g][j]
        /\ WordBoundary(user_query_lower, off)
        /\ WordBoundary(user_query_lower, off + Len(GreetingWords[g]))

\* the dicts the recognizer returns; {} is the function with the empty domain
NoEntities == [k \in {} |-> << >>]
OrderEntity(order_id) == [k \in {"order_id"} |-> order_id]

TrackOrderResult(user_query) ==
    LET order_id == upper(group2(user_query))
    IN  [ intent |-> "track_order",
          entities |-> OrderEntity(order_id),
          message |-> << "Fetching status for order ", order_id, "..." >> ]

GreetingResult ==
    [ intent |-> "greeting",
      entities |-> NoEntities,
      message |-> << "Hello! How can I help you today?" >> ]

UnknownResult ==
    [ intent |-> "unknown",
      entities |-> NoEntities,
      message |-> << "I'm not sure how to help with that. Can you try rephrasing or ask about FAQs, order tracking, or submitting a ticket?" >> ]

\* mutant: the greeting rule is tried before the track_order rule
recognize_greeting_first(user_query) ==
    IF greeting_match(lower(user_query)) THEN GreetingResult
    ELSE IF track_order_match(user_query) THEN TrackOrderResult(user_query)
    ELSE UnknownResult

\* main.py:112-142
recognize_intent_and_extract_entities(user_query) ==
    IF track_order_match(user_query) THEN TrackOrderResult(user_query)
    ELSE IF greeting_match(lower(user_query)) THEN GreetingResult
    ELSE UnknownResult

\* main.py:204
MockedMessage(order_id) ==
    << "Mocked: Order ", order_id, " is currently out for delivery. Estimated arrival: Tomorrow." >>

\* mutant: the mocked message is written whatever the intent
mock_every_intent(result) ==
    [result EXCEPT !.message =
        MockedMessage(IF "order_id" \in DOMAIN result.entities
                      THEN result.entities["order_id"] ELSE << >>)]

\* main.py:201-204: the mock action on the recognizer's result
mock_action(result) ==
    IF result.intent = "track_order"
    THEN [result EXCEPT !.message = MockedMessage(result.entities["order_id"])]
    ELSE result

---------------------------------------------------------------------------
(* Sentiment classifier *)

\* TextBlob polarity lies in [-1.0, 1.0]; a score s stands for s * 0.1 / Resolution
Scores == (-10 * Resolution)..(10 * Resolution)

\* mutant: the thresholds themselves are labelled positive and negative
label_inclusive(score) ==
    IF score >= Resolution THEN "positive"
    ELSE IF score <= -Resolution THEN "negative"
    ELSE "neutral"

\* main.py:81-86: polarity > 0.1, polarity < -0.1, else
label(score) ==
    IF score > Resolution THEN "positive"
    ELSE IF score < -Resolution THEN "negative"
    ELSE "neutral"

\* main.py:79-86; polarity[text] is TextBlob(text).sentiment.polarity
get_sentiment(text) == label(polarity[text])

---------------------------------------------------------------------------
(* Request bodies and the pydantic models that validate them *)

\* a JSON body is a function from the field names it holds to their values
NoFields == [k \in {} |-> ""]

\* Field(..., min_length=3) of FAQQuery.query
QueryMinLength == 3
\* Field(..., min_length=10) of TicketInput.issue_description
IssueMinLength == 10

\* the fields of a FAQQuery body that fail validation
FAQQueryErrors(body) ==
    { f \in {"query"} : f \notin DOMAIN body \/ Len(body[f]) < QueryMinLength }

\* the fields of an ActionQuery body that fail validation
ActionQueryErrors(body) == { f \in {"query"} : f \notin DOMAIN body }

\* mutant: the length of the description is not checked
TicketInputErrorsNoLength(body) ==
    { f \in {"user_email", "issue_description"} : f \notin DOMAIN body }

\* the fields of a TicketInput body that fail validation
TicketInputErrors(body) ==
    { f \in {"user_email", "issue_description"} : f \notin DOMAIN body }
        \cup { f \in {"issue_description"} \cap DOMAIN body : Len(body[f]) < IssueMinLength }

\* FastAPI's answer to a body that fails its model
ValidationError(fields) == [status |-> 422, body |-> [errors |-> fields]]

\* HTTPException(status_code=404, detail="Ticket not found")
NotFound == [status |-> 404, body |-> [detail |-> "Ticket not found"]]

\* FAQResponse.matched_question = None
None == "None"

---------------------------------------------------------------------------
(* Ticket identifiers, timestamps, the store *)

\* the 128-bit values uuid4 can draw in a behaviour: one more than the tickets.
\* The code only stores and compares identifiers, so the k-th value generated
\* is named k; a value not generated yet can still be asked for by a lookup
Uuids == 1..(MaxTickets + 1)

\* mutant: the identifier generator may repeat a value it has returned before
uuid4_repeating == Uuids

\* str(uuid.uuid4()): a value never generated before; every generated value is
\* a key of the store, since submit_ticket inserts it in the same step
uuid4 == { id \in Uuids : id = Cardinality(DOMAIN support_tickets_db) + 1 }

\* datetime.utcnow(): the wall clock ticks in half seconds
datetime_utcnow == [second |-> utcnow \div 2, microsecond |-> 500000 * (utcnow % 2)]

\* datetime.isoformat(): the fraction is left out when microsecond is 0
isoformat(dt) ==
    IF dt.microsecond = 0 THEN << dt.second >> ELSE << dt.second, dt.microsecond >>

\* mutant: inserting a ticket rebinds the store to a dict holding it alone
setitem_rebinding(db, key, value) == [k \in {key} |-> value]

\* support_tickets_db[key] = value
setitem(db, key, value) ==
    [k \in DOMAIN db \cup {key} |-> IF k = key THEN value ELSE db[k]]

\* TicketResponse(**ticket): status defaults to "submitted" when the dict has none
TicketResponse(ticket) ==
    [ ticket_id |-> ticket.ticket_id,
      user_email |-> ticket.user_email,
      issue_description |-> ticket.issue_description,
      status |-> IF "status" \in DOMAIN ticket THEN ticket.status ELSE "submitted",
      sentiment |-> ticket.sentiment,
      timestamp |-> ticket.timestamp ]

\* mutant: an unknown identifier is looked up with dict.get and a default
ticket_lookup_default(db, ticket_id) ==
    IF ticket_id \notin DOMAIN db
    THEN [status |-> 200, body |-> NoFields]
    ELSE [status |-> 200, body |-> TicketResponse(db[ticket_id])]

\* main.py:187-189
ticket_lookup(db, ticket_id) ==
    IF ticket_id \notin DOMAIN db
    THEN NotFound
    ELSE [status |-> 200, body |-> TicketResponse(db[ticket_id])]

---------------------------------------------------------------------------
(* Requests the model sends *)

\* every concatenation of at most n of the chunks
RECURSIVE ChunkQueries(_, _)
ChunkQueries(chunks, n) ==
    IF n = 0 THEN { << >> }
    ELSE LET shorter == ChunkQueries(chunks, n - 1)
         IN  shorter \cup { q \o c : q \in shorter, c \in chunks }

FaqChunks ==
    { <<"P", "a", "s", "s", "w", "o", "r", "d">>,
      <<"r", "e", "f", "u", "n", "d">>,
      <<"s", "h", "i", "p", "p", "i", "n", "g">>,
      <<"p", "a", "y">>,
      <<"p", "a", "l">>,
      <<"c", "r", "e", "d", "i", "t">>,
      <<" ", "c", "a", "r", "d">>,
      <<"x", "y">> }

IntentChunks ==
    { <<"t", "r", "a", "c", "k", " ", "m", "y", " ", "o", "r", "d", "e", "r">>,
      <<"S", "t", "a", "t", "u", "s", " ", "O", "f", " ", "m", "y", " ", "o", "r", "d", "e", "r">>,
      <<"w", "h", "e", "r", "e", " ", "i", "s", " ", "m", "y", " ", "o", "r", "d", "e", "r">>,
      <<" ">>,
      <<"a", "b", "1", "2">>,
      <<"h", "i">>,
      <<"H", "e", "l", "l", "o">>,
      <<"s">> }

\* bodies with a query, and the body without one
QueryBodies(queries) == { [query |-> q] : q \in queries }
AllQueryBodies(queries) == QueryBodies(queries) \cup { NoFields }

FaqRequests(bodies) == { [kind |-> "faq", body |-> b] : b \in bodies }
ActionRequests(bodies) == { [kind |-> "action", body |-> b] : b \in bodies }

\* issue descriptions: of 9 characters, of 10 characters, and two sentences of
\* which TextBlob's lexicon gives the polarity
TooShort == "Too short"
TenLong == "Ten digits"
Terrible == "This is terrible and awful"
Factual == "The package arrived on Tuesday"
Descriptions == { TooShort, TenLong, Terrible, Factual }

TicketBodies ==
    { [user_email |-> "ann@example.com", issue_description |-> d] : d \in Descriptions }
        \cup { [issue_description |-> Terrible] }

TicketRequests(bodies) == { [kind |-> "ticket", body |-> b] : b \in bodies }
LookupRequests == { [kind |-> "lookup", ticket_id |-> id] : id \in Uuids }

\* the FAQ and action requests of the main specification
SomeFaqRequests ==
    FaqRequests(QueryBodies({ <<"P", "a", "s", "s", "w", "o", "r", "d">> }))
SomeActionRequests ==
    ActionRequests(QueryBodies({ <<"t", "r", "a", "c", "k", " ", "m", "y", " ", "o", "r", "d", "e", "r", " ", "a", "b", "1", "2">> }))

\* TextBlob's lexicon: terrible and awful are both -1.0, no word of the other
\* descriptions carries polarity
TextBlobPolarity(text) ==
    IF text = Terrible THEN -10 * Resolution ELSE 0

---------------------------------------------------------------------------
(* The server *)

NoRequest == [kind |-> "none"]
NoResponse == [status |-> 0]

Init ==
    /\ support_tickets_db = [k \in {} |-> NoFields]
    /\ pending = EmptyBag
    /\ last = [req |-> NoRequest, resp |-> NoResponse]
    /\ tickets_log = << >>
    /\ utcnow = 0
    /\ polarity = [d \in Descriptions |-> TextBlobPolarity(d)]

\* A handler is a coroutine without an await (main.py:159-180): the event loop
\* runs it from its first line to its return before it runs anything else.
\* Requests are in flight between their arrival and the run of their handler,
\* and are handled in any order.  A request that only reads is received and
\* handled in one step: what it reads is the state at the time it is handled.

\* a client sends the ticket submission r; the server handles it later
Receive(r) ==
    /\ BagCardinality(pending) < MaxInFlight
    /\ Len(tickets_log) + BagCardinality(pending) < MaxTickets
    /\ pending' = pending (+) SetToBag({r})
    /\ UNCHANGED <<support_tickets_db, last, tickets_log, utcnow, polarity>>

\* the wall clock advances
Tick ==
    /\ utcnow < MaxClock
    /\ utcnow' = utcnow + 1
    /\ UNCHANGED <<support_tickets_db, pending, last, tickets_log, polarity>>

\* the response of POST /support/faq
FAQResponse(body) ==
    IF FAQQueryErrors(body) # {}
    THEN ValidationError(FAQQueryErrors(body))
    ELSE LET faq_id == find_faq_answer(body.query)
         IN  IF faq_id # NoFaq
             THEN [status |-> 200,
                   body |-> [matched_question |-> faq_database[faq_id].question,
                             answer |-> faq_database[faq_id].answer]]
             ELSE [status |-> 200,
                   body |-> [matched_question |-> None, answer |-> FallbackAnswer]]

\* POST /support/faq
get_faq(r) ==
    /\ r.kind = "faq"
    /\ last' = [req |-> r, resp |-> FAQResponse(r.body)]
    /\ UNCHANGED <<support_tickets_db, pending, tickets_log, utcnow, polarity>>

\* POST /support/ticket
submit_ticket(r) ==
    /\ BagIn(r, pending) /\ r.kind = "ticket"
    /\ pending' = pending (-) SetToBag({r})
    /\ IF TicketInputErrors(r.body) # {}
       THEN /\ last' = [req |-> r, resp |-> ValidationError(TicketInputErrors(r.body))]
            /\ UNCHANGED <<support_tickets_db, tickets_log>>
       ELSE \E ticket_id \in uuid4 :
               LET new_ticket ==
                       [ ticket_id |-> ticket_id,
                         user_email |-> r.body.user_email,
                         issue_description |-> r.body.issue_description,
                         status |-> "submitted",
                         sentiment |-> get_sentiment(r.body.issue_description),
                         timestamp |-> isoformat(datetime_utcnow) \o << "Z" >> ]
                   response == [status |-> 201, body |-> TicketResponse(new_ticket)]
               IN  /\ support_tickets_db' = setitem(support_tickets_db, ticket_id, new_ticket)
                   /\ last' = [req |-> r, resp |-> response]
                   /\ tickets_log' = Append(tickets_log,
                          [ req |-> r, resp |-> response,
                            inflight |-> BagCardinality(pending) ])
    /\ UNCHANGED <<utcnow, polarity>>

\* GET /support/tickets/{ticket_id}
get_ticket_status(r) ==
    /\ r.kind = "lookup"
    /\ last' = [req |-> r, resp |-> ticket_lookup(support_tickets_db, r.ticket_id)]
    /\ UNCHANGED <<support_tickets_db, pending, tickets_log, utcnow, polarity>>

\* the response of POST /support/action
ActionResponse(body) ==
    IF ActionQueryErrors(body) # {}
    THEN ValidationError(ActionQueryErrors(body))
    ELSE [status |-> 200,
          body |-> mock_action(recognize_intent_and_extract_entities(body.query))]

\* POST /support/action
perform_action(r) ==
    /\ r.kind = "action"
    /\ last' = [req |-> r, resp |-> ActionResponse(r.body)]
    /\ UNCHANGED <<support_tickets_db, pending, tickets_log, utcnow, polarity>>

Next ==
    \/ \E r \in TicketRequests(TicketBodies) : Receive(r)
    \/ \E r \in BagToSet(pending) : submit_ticket(r)
    \/ \E r \in LookupRequests : get_ticket_status(r)
    \/ \E r \in SomeFaqRequests : get_faq(r)
    \/ \E r \in SomeActionRequests : perform_action(r)
    \/ Tick

Spec == Init /\ [][Next]_vars

---------------------------------------------------------------------------
(* Specifications of the pure functions: a behaviour starts with one of the
   generated requests received, and answers it *)

\* the server starts with request r received and not answered
InitWith(r) ==
    /\ support_tickets_db = [k \in {} |-> NoFields]
    /\ pending = EmptyBag
    /\ last = [req |-> r, resp |-> NoResponse]
    /\ tickets_log = << >>
    /\ utcnow = 0
    /\ polarity = [d \in Descriptions |-> TextBlobPolarity(d)]

InitFaq ==
    \E r \in FaqRequests(AllQueryBodies(ChunkQueries(FaqChunks, MaxChunks))) : InitWith(r)

NextFaq == last.resp = NoResponse /\ get_faq(last.req)

SpecFaq == InitFaq /\ [][NextFaq]_vars

InitIntent ==
    \E r \in ActionRequests(AllQueryBodies(ChunkQueries(IntentChunks, MaxChunks))) : InitWith(r)

NextIntent == last.resp = NoResponse /\ perform_action(last.req)

SpecIntent == InitIntent /\ [][NextIntent]_vars

\* TextBlob may give the factual sentence any polarity of [-1.0, 1.0]
InitSentiment ==
    /\ support_tickets_db = [k \in {} |-> NoFields]
    /\ pending = EmptyBag
    /\ last = [req |-> NoRequest, resp |-> NoResponse]
    /\ tickets_log = << >>
    /\ utcnow = 0
    /\ \E score \in Scores :
           polarity = [d \in Descriptions |->
                          IF d = Factual THEN score ELSE TextBlobPolarity(d)]

NextSentiment ==
    \/ \E r \in TicketRequests({ b \in TicketBodies : b = [user_email |-> "ann@example.com", issue_description |-> Factual] }) : Receive(r)
    \/ \E r \in BagToSet(pending) : submit_ticket(r)

SpecSentiment == InitSentiment /\ [][NextSentiment]_vars

---------------------------------------------------------------------------
(* Claims *)

\* the identifier a 201 response returned
LogId(i) == tickets_log[i].resp.body.ticket_id

\* the ticket of the i-th 201 response can be retrieved: a lookup with its
\* identifier answers 200 with the record the submission returned
Retrievable(i) ==
    ticket_lookup(support_tickets_db, LogId(i)) =
        [status |-> 200, body |-> tickets_log[i].resp.body]

\* C1: a lookup with the identifier a submission returned, handled after it and
\* after any other requests, answers 200 with a record equal in every field to
\* the submission's response.  (While last is a lookup no submission has been
\* handled since, so tickets_log is the log the lookup was handled under.)
C1_RoundTrip ==
    last.req.kind = "lookup" =>
        \A i \in 1..Len(tickets_log) :
            LogId(i) = last.req.ticket_id =>
                /\ last.resp.status = 200
                /\ \A f \in { "ticket_id", "user_email", "issue_description",
                              "status", "sentiment", "timestamp" } :
                       last.resp.body[f] = tickets_log[i].resp.body[f]

\* the first ticket is looked up after a second submission was handled
C1_Witness ==
    /\ last.req.kind = "lookup"
    /\ Len(tickets_log) = 2
    /\ last.req.ticket_id = LogId(1)
    /\ last.resp.status = 200

\* submissions i and j had identical input
SameInput(i, j) == tickets_log[i].req.body = tickets_log[j].req.body

\* C2, as stated: two submissions with identical input produce two distinct
\* identifiers and two distinct timestamps, and both tickets are retrievable
C2_DistinctIdsAndTimestamps ==
    \A i, j \in 1..Len(tickets_log) :
        (i < j /\ SameInput(i, j)) =>
            /\ LogId(i) # LogId(j)
            /\ tickets_log[i].resp.body.timestamp # tickets_log[j].resp.body.timestamp
            /\ Retrievable(i) /\ Retrievable(j)

\* C2, amended: two submissions with identical input produce two distinct
\* identifiers, and both tickets are retrievable by their own identifier; the
\* two timestamps are the clock's readings and need not differ
C2_DistinctIds ==
    \A i, j \in 1..Len(tickets_log) :
        (i < j /\ SameInput(i, j)) =>
            /\ LogId(i) # LogId(j)
            /\ Retrievable(i) /\ Retrievable(j)

\* two submissions with identical input were stamped with the same reading
C2_Witness ==
    \E i, j \in 1..Len(tickets_log) :
        /\ i < j /\ SameInput(i, j)
        /\ tickets_log[i].resp.body.timestamp = tickets_log[j].resp.body.timestamp

\* C3: no step updates or deletes a ticket: every identifier of the store stays
\* in it and every field of its record keeps its value, status "submitted"
C3_NeverUpdatedOrDeleted ==
    [][ \A id \in DOMAIN support_tickets_db :
            /\ id \in DOMAIN support_tickets_db'
            /\ support_tickets_db'[id] = support_tickets_db[id]
            /\ support_tickets_db'[id].status = "submitted" ]_vars

\* a FAQ or action request was handled with two tickets in the store, the
\* first of them older than the second
C3_Witness ==
    /\ last.req.kind \in { "faq", "action" }
    /\ Cardinality(DOMAIN support_tickets_db) = 2
    /\ support_tickets_db[1].timestamp # support_tickets_db[2].timestamp

\* the body lacks the e-mail or its description is shorter than 10 characters
InvalidSubmission(body) ==
    \/ "user_email" \notin DOMAIN body
    \/ "issue_description" \in DOMAIN body /\ Len(body.issue_description) < 10

\* C4: the step that handles such a submission answers 422 and leaves the
\* store as it was
C4_InvalidSubmissionWritesNothing ==
    [][ ( /\ BagCardinality(pending') < BagCardinality(pending)
          /\ InvalidSubmission(last'.req.body) )
        => /\ last'.resp.status = 422
           /\ support_tickets_db' = support_tickets_db ]_vars

\* a too short description was refused while the store held a ticket
C4_Witness ==
    /\ last.req.kind = "ticket"
    /\ last.req.body.issue_description = TooShort
    /\ last.resp.status = 422
    /\ DOMAIN support_tickets_db # {}

\* C5: a step that handles a lookup leaves the store unchanged, and answers
\* 404 "Ticket not found" when the identifier is not a key of the store
C5_LookupNotFoundReadOnly ==
    [][ last'.req.kind = "lookup" =>
            /\ support_tickets_db' = support_tickets_db
            /\ last'.req.ticket_id \notin DOMAIN support_tickets_db =>
                   /\ last'.resp.status = 404
                   /\ last'.resp.body = [detail |-> "Ticket not found"] ]_vars

\* an unknown identifier was looked up while the store held a ticket
C5_Witness ==
    /\ last.req.kind = "lookup"
    /\ last.resp.status = 404
    /\ DOMAIN support_tickets_db # {}

\* C6: once no submission is in flight the store holds exactly one record per
\* completed submission, each under its own identifier and with the field
\* values of its own request
C6_OneRecordPerSubmission ==
    pending = EmptyBag =>
        /\ Cardinality(DOMAIN support_tickets_db) = Len(tickets_log)
        /\ \A i, j \in 1..Len(tickets_log) : i # j => LogId(i) # LogId(j)
        /\ \A i \in 1..Len(tickets_log) :
               /\ LogId(i) \in DOMAIN support_tickets_db
               /\ support_tickets_db[LogId(i)].ticket_id = LogId(i)
               /\ support_tickets_db[LogId(i)].user_email = tickets_log[i].req.body.user_email
               /\ support_tickets_db[LogId(i)].issue_description =
                      tickets_log[i].req.body.issue_description
               /\ TicketResponse(support_tickets_db[LogId(i)]) = tickets_log[i].resp.body

\* two different submissions were in flight together and have both completed
C6_Witness ==
    /\ pending = EmptyBag
    /\ Len(tickets_log) = 2
    /\ tickets_log[1].inflight = 2
    /\ ~SameInput(1, 2)

\* how many keywords of the i-th FAQ entry occur in the lower-cased query
KeywordCount(i, query) ==
    LET keywords == faq_database[FaqOrder[i]].keywords
    IN  Cardinality({ k \in 1..Len(keywords) : Contains(lower(query), keywords[k]) })

\* the i-th entry has the highest count, and no entry declared before it has
FirstHighest(i, query) ==
    /\ \A j \in 1..Len(FaqOrder) : KeywordCount(j, query) <= KeywordCount(i, query)
    /\ \A j \in 1..(i - 1) : KeywordCount(j, query) < KeywordCount(i, query)

\* the last request was a FAQ request that passed validation
FaqAnswered == last.req.kind = "faq" /\ last.resp.status = 200

\* C7: the matcher answers with the first entry, in declaration order, of the
\* highest keyword count, and with the fallback and no matched_question
\* exactly when every count is 0
C7_FirstHighestCount ==
    FaqAnswered =>
        LET query == last.req.body.query
            nothing == \A i \in 1..Len(FaqOrder) : KeywordCount(i, query) = 0
        IN  /\ nothing <=> last.resp.body.matched_question = None
            /\ nothing => last.resp.body.answer = FallbackAnswer
            /\ ~nothing =>
                   \E i \in 1..Len(FaqOrder) :
                       /\ FirstHighest(i, query)
                       /\ last.resp.body.matched_question = faq_database[FaqOrder[i]].question
                       /\ last.resp.body.answer = faq_database[FaqOrder[i]].answer

\* two entries tie on the highest count, above 0, and the first was returned
C7_Witness ==
    /\ FaqAnswered
    /\ \E i, j \in 1..Len(FaqOrder) :
           /\ i < j
           /\ FirstHighest(i, last.req.body.query)
           /\ KeywordCount(j, last.req.body.query) = KeywordCount(i, last.req.body.query)
           /\ KeywordCount(i, last.req.body.query) > 0
           /\ last.resp.body.matched_question = faq_database[FaqOrder[i]].question

\* the last request was an action request that passed validation
ActionAnswered == last.req.kind = "action" /\ last.resp.status = 200

\* C8: track_order whenever its pattern matches, with the captured token in
\* upper case as the only entity; greeting only when it does not and a greeting
\* word occurs as a whole word; unknown only when neither matches
C8_FirstMatchingRule ==
    ActionAnswered =>
        LET query == last.req.body.query
            track == track_order_match(query)
            greet == greeting_match(lower(query))
            body  == last.resp.body
        IN  /\ track =>
                   /\ body.intent = "track_order"
                   /\ DOMAIN body.entities = { "order_id" }
                   /\ body.entities["order_id"] = upper(group2(query))
            /\ body.intent = "track_order" => track
            /\ body.intent = "greeting" <=> (~track /\ greet)
            /\ body.intent = "unknown" <=> (~track /\ ~greet)
            /\ body.intent \in { "greeting", "unknown" } => DOMAIN body.entities = {}

\* a query matches the track_order pattern and holds a greeting word as well
C8_Witness ==
    /\ ActionAnswered
    /\ track_order_match(last.req.body.query)
    /\ greeting_match(lower(last.req.body.query))
    /\ last.resp.body.intent = "track_order"

\* the message is the mocked delivery status of the order the entities name
IsMocked(body) ==
    /\ "order_id" \in DOMAIN body.entities
    /\ body.message =
           << "Mocked: Order ", body.entities["order_id"],
              " is currently out for delivery. Estimated arrival: Tomorrow." >>

\* C9: the message of the response is the mocked delivery status if and only
\* if the recognized intent is track_order; for greeting and unknown the
\* recognizer's intent, entities and message are the response
C9_MockOnlyTrackOrder ==
    ActionAnswered =>
        LET recognized == recognize_intent_and_extract_entities(last.req.body.query)
            body == last.resp.body
        IN  /\ recognized.intent = "track_order" <=> IsMocked(body)
            /\ body.intent = recognized.intent
            /\ body.entities = recognized.entities
            /\ recognized.intent \in { "greeting", "unknown" } =>
                   body.message = recognized.message

\* an order was tracked and the mocked message names it
C9_Witness ==
    /\ ActionAnswered
    /\ last.resp.body.intent = "track_order"
    /\ last.resp.body.entities["order_id"] = << "A", "B", "1", "2" >>
    /\ IsMocked(last.resp.body)

\* C10: a score above 0.1 is labelled positive, a score below -0.1 negative,
\* every other score neutral, 0.1 and -0.1 included; tickets of the same text
\* carry the same label
C10_Thresholds ==
    /\ \A id \in DOMAIN support_tickets_db :
           LET ticket == support_tickets_db[id]
               score == polarity[ticket.issue_description]
           IN  /\ score > Resolution => ticket.sentiment = "positive"
               /\ score < -Resolution => ticket.sentiment = "negative"
               /\ (score >= -Resolution /\ score <= Resolution) =>
                      ticket.sentiment = "neutral"
    /\ \A id1, id2 \in DOMAIN support_tickets_db :
           support_tickets_db[id1].issue_description = support_tickets_db[id2].issue_description
               => support_tickets_db[id1].sentiment = support_tickets_db[id2].sentiment

\* a text of polarity exactly 0.1 was labelled neutral, twice
C10_Witness ==
    /\ polarity[Factual] = Resolution
    /\ Cardinality(DOMAIN support_tickets_db) = 2
    /\ \A id \in DOMAIN support_tickets_db :
           /\ support_tickets_db[id].issue_description = Factual
           /\ support_tickets_db[id].sentiment = "neutral"

=============================================================================
